---- MODULE Spec2Model ----
(***************************************************************************)
(* Model of reco.py, the arXiv paper recommender.                          *)
(*                                                                         *)
(* The program is a Streamlit script: every user interaction re-runs the   *)
(* whole script against st.session_state.  Each action below is one such   *)
(* interaction followed by the complete script run it triggers.            *)
(***************************************************************************)
EXTENDS Integers, Sequences, FiniteSets, TLC

VARIABLES
    papers,               \* st.session_state.papers
    liked_papers,         \* st.session_state.liked_papers
    liked_categories,     \* st.session_state.liked_categories   (dict)
    disliked_categories,  \* st.session_state.disliked_categories (dict)
    viewed_categories,    \* st.session_state.viewed_categories  (dict)
    start_index,          \* st.session_state.start_index
    page,                 \* value of the sidebar selectbox
    user_interest,        \* value of the text input
    preference,           \* values of the radios preference_{idx}
    requests,             \* fetch_papers calls issued by the last script run
    outcome,              \* what the last script run ended with
    sorted_preferences    \* ranking computed by the last script run

vars == <<papers, liked_papers, liked_categories, disliked_categories,
          viewed_categories, start_index, page, user_interest, preference,
          requests, outcome, sorted_preferences>>

engine_vars == <<liked_papers, liked_categories, disliked_categories,
                 viewed_categories>>

-----------------------------------------------------------------------------
(* Bounds of the model *)

MaxPapers == 3      \* papers accumulated in a session
MaxBatch  == 2      \* entries in one feed returned to the Fetch Papers button
MaxViewed == 8      \* largest viewed counter explored

-----------------------------------------------------------------------------
(* Program constants *)

FETCH_MAX_RESULTS == 5
START_INCREMENT   == 5
RECO_MAX_RESULTS  == 3
DEFAULT_START     == 0

Pages == {"Fetch Papers", "View Preferences", "View Liked Papers",
          "Generate Recommendations"}

Options == {"Neutral", "Like", "Dislike"}

-----------------------------------------------------------------------------
(* Environment: what the arXiv feed can contain and what the user can type *)

Paper(t, cats, l) ==
    [title |-> t, authors |-> <<"an author">>, summary |-> "a summary",
     categories |-> cats, link |-> l]

PaperPool ==
    { Paper("A", <<"cs.AI">>, "arxiv/1"),
      Paper("B", <<"cs.LG", "cs.AI">>, "arxiv/2") }

Categories == {"cs.AI", "cs.LG"}

Interests == {"", "quantum computing"}

Min(a, b) == IF a < b THEN a ELSE b

SeqsUpTo(S, n) == UNION { [1..k -> S] : k \in 0..n }

\* The feed holds at most max_results entries; fetch_papers returns them all.
Feeds(max_results) == SeqsUpTo(PaperPool, Min(MaxBatch, max_results))

-----------------------------------------------------------------------------
(* Python dict: insertion-ordered sequence of key/value entries *)

HasKey(d, key) == \E i \in DOMAIN d : d[i].k = key

Get(d, key, default) ==
    IF HasKey(d, key)
    THEN d[CHOOSE i \in DOMAIN d : d[i].k = key].v
    ELSE default

Put(d, key, val) ==
    IF HasKey(d, key)
    THEN [i \in DOMAIN d |-> IF d[i].k = key THEN [k |-> key, v |-> val] ELSE d[i]]
    ELSE Append(d, [k |-> key, v |-> val])

Contains(s, x) == \E i \in DOMAIN s : s[i] = x

\* for category in categories: d[category] = d.get(category, 0) + 1
RECURSIVE IncrementAll(_, _)
IncrementAll(d, cats) ==
    IF cats = <<>> THEN d
    ELSE IncrementAll(Put(d, Head(cats), Get(d, Head(cats), 0) + 1), Tail(cats))

-----------------------------------------------------------------------------
(* fetch_papers *)

Request(search_query, start, max_results) ==
    [search_query |-> search_query, start |-> start, max_results |-> max_results]

-----------------------------------------------------------------------------
(* Fetch Papers page *)

Engine == [liked_papers |-> liked_papers,
           liked_categories |-> liked_categories,
           disliked_categories |-> disliked_categories,
           viewed_categories |-> viewed_categories]

AppendIfAbsent_Always(s, paper) == Append(s, paper)

\* if paper not in liked_papers: liked_papers.append(paper)
AppendIfAbsent(s, paper) ==
    IF Contains(s, paper) THEN s ELSE Append(s, paper)

RECURSIVE TouchAll(_, _)
TouchAll(d, cats) ==
    IF cats = <<>> THEN d
    ELSE TouchAll(Put(d, Head(cats), Get(d, Head(cats), 0)), Tail(cats))

ViewedUpdate_NoIncrement(d, cats) == TouchAll(d, cats)

\* the loop over categories that counts the view
ViewedUpdate(d, cats) == IncrementAll(d, cats)

RenderPaper_ViewedUnderDislike(eng, paper, pref) ==
    IF pref = "Like"
    THEN [eng EXCEPT
            !.liked_papers = AppendIfAbsent(@, paper),
            !.liked_categories = IncrementAll(@, paper.categories)]
    ELSE IF pref = "Dislike"
    THEN [eng EXCEPT
            !.disliked_categories = IncrementAll(@, paper.categories),
            !.viewed_categories = ViewedUpdate(@, paper.categories)]
    ELSE eng

RenderPaper_ViewedUnderLike(eng, paper, pref) ==
    IF pref = "Like"
    THEN [eng EXCEPT
            !.liked_papers = AppendIfAbsent(@, paper),
            !.liked_categories = IncrementAll(@, paper.categories),
            !.viewed_categories = ViewedUpdate(@, paper.categories)]
    ELSE IF pref = "Dislike"
    THEN [eng EXCEPT
            !.disliked_categories = IncrementAll(@, paper.categories)]
    ELSE eng

\* One iteration of the display loop: the update for one paper's radio value.
RenderPaper(eng, paper, pref) ==
    LET e1 == IF pref = "Like"
              THEN [eng EXCEPT
                      !.liked_papers = AppendIfAbsent(@, paper),
                      !.liked_categories = IncrementAll(@, paper.categories)]
              ELSE IF pref = "Dislike"
              THEN [eng EXCEPT
                      !.disliked_categories = IncrementAll(@, paper.categories)]
              ELSE eng
    IN  [e1 EXCEPT !.viewed_categories = ViewedUpdate(@, paper.categories)]

\* for idx, paper in enumerate(papers): ...   (idx \in 1..Len(ps) here)
RECURSIVE RenderFrom(_, _, _, _)
RenderFrom(eng, ps, prefs, idx) ==
    IF idx > Len(ps) THEN eng
    ELSE RenderFrom(RenderPaper(eng, ps[idx], prefs[idx]), ps, prefs, idx + 1)

RenderLoop(eng, ps, prefs) == RenderFrom(eng, ps, prefs, 1)

FetchPageRun_RenderAfterError(eng, ps, prefs, raised) == RenderLoop(eng, ps, prefs)

\* The body of the Fetch Papers page after the button handler: an exception
\* raised by fetch_papers ends the script run before the display loop.
FetchPageRun(eng, ps, prefs, raised) ==
    IF raised THEN eng ELSE RenderLoop(eng, ps, prefs)

NextStart_Unconditional(start, new_papers) == start + START_INCREMENT

\* if new_papers: ... start_index += 5
NextStart(start, new_papers) ==
    IF new_papers /= <<>> THEN start + START_INCREMENT ELSE start

\* Radios of papers appended by this run start at their first option.
ExtendPrefs(prefs, n) ==
    [i \in 1..n |-> IF i \in DOMAIN prefs THEN prefs[i] ELSE "Neutral"]

\* A widget that a script run does not render may lose its value.
Unrendered(value, default) == {value, default}

AllNeutral(n) == [i \in 1..n |-> "Neutral"]

WithinBound(eng) ==
    \A i \in DOMAIN eng.viewed_categories : eng.viewed_categories[i].v <= MaxViewed

-----------------------------------------------------------------------------
(* Scores and ranking (View Preferences and Generate Recommendations) *)

\* A score (liked - disliked) / viewed is kept as the exact fraction num/den.
\* Python evaluates it as a correctly rounded float quotient of two small
\* integers, which orders and equates exactly as the fractions do.
ScoreLess(a, b) == a.num * b.den < b.num * a.den
ScoreEq(a, b)   == a.num * b.den = b.num * a.den

\* The dict comprehension divides by viewed_categories[category] for every key.
ZeroDivision(viewed) == \E i \in DOMAIN viewed : viewed[i].v = 0

\* preference_scores.items(), in the iteration order of viewed_categories
PreferenceScores(liked, disliked, viewed) ==
    [i \in DOMAIN viewed |->
        [category |-> viewed[i].k,
         num |-> Get(liked, viewed[i].k, 0) - Get(disliked, viewed[i].k, 0),
         den |-> viewed[i].v]]

InsertByScore_Ascending(s, x) ==
    LET n == Cardinality({i \in DOMAIN s : ~ScoreLess(x, s[i])})
    IN  SubSeq(s, 1, n) \o <<x>> \o SubSeq(s, n + 1, Len(s))

\* x joins an already ranked prefix behind every item whose score is not less
InsertByScore(s, x) ==
    LET n == Cardinality({i \in DOMAIN s : ~ScoreLess(s[i], x)})
    IN  SubSeq(s, 1, n) \o <<x>> \o SubSeq(s, n + 1, Len(s))

RECURSIVE SortFrom(_, _, _)
SortFrom(acc, items, i) ==
    IF i > Len(items) THEN acc
    ELSE SortFrom(InsertByScore(acc, items[i]), items, i + 1)

\* sorted(items, key=lambda x: x[1], reverse=True): stable, descending
SortedByScore(items) == SortFrom(<<>>, items, 1)

IsPreferred_NonNegative(item) == item.num >= 0

\* score > 0
IsPreferred(item) == item.num > 0

\* [cat for cat, score in sorted_categories if score > 0]
PreferredCategories(ranking) ==
    LET kept == SelectSeq(ranking, IsPreferred)
    IN  [i \in DOMAIN kept |-> kept[i].category]

RecoQuery_CategoryPrefix(category) == "category:" \o category

\* f"cat:{category}"
RecoQuery(category) == "cat:" \o category

RecoRequest(category) == Request(RecoQuery(category), DEFAULT_START, RECO_MAX_RESULTS)

-----------------------------------------------------------------------------
(* Session state after the first script run *)

Init ==
    /\ papers = <<>>
    /\ liked_papers = <<>>
    /\ liked_categories = <<>>
    /\ disliked_categories = <<>>
    /\ viewed_categories = <<>>
    /\ start_index = 0
    /\ page = "Fetch Papers"
    /\ user_interest = ""
    /\ preference = <<>>
    /\ requests = <<>>
    /\ outcome = "no_papers"
    /\ sorted_preferences = <<>>

-----------------------------------------------------------------------------
(* One script run per page, given the widget values it starts with *)

SetEngine(eng) ==
    /\ liked_papers' = eng.liked_papers
    /\ liked_categories' = eng.liked_categories
    /\ disliked_categories' = eng.disliked_categories
    /\ viewed_categories' = eng.viewed_categories

\* The pages other than Fetch Papers render neither the radios nor the text input.
WidgetsNotRendered(prefs, interest) ==
    /\ preference' \in Unrendered(prefs, AllNeutral(Len(papers)))
    /\ user_interest' \in Unrendered(interest, "")

\* page == "Fetch Papers"; clicked is the value of st.button
FetchPapersPage(prefs, interest, clicked) ==
    \E raised \in (IF clicked THEN BOOLEAN ELSE {FALSE}) :
    \E new_papers \in (IF clicked /\ ~raised THEN Feeds(FETCH_MAX_RESULTS) ELSE {<<>>}) :
        LET search_query == IF interest /= "" THEN interest ELSE "all"
            ps    == IF new_papers /= <<>> THEN papers \o new_papers ELSE papers
            shown == ExtendPrefs(prefs, Len(ps))
            eng   == FetchPageRun(Engine, ps, shown, raised)
        IN  /\ Len(ps) <= MaxPapers
            /\ WithinBound(eng)
            /\ requests' = IF clicked
                            THEN <<Request(search_query, start_index, FETCH_MAX_RESULTS)>>
                            ELSE <<>>
            /\ papers' = ps
            /\ start_index' = NextStart(start_index, new_papers)
            /\ SetEngine(eng)
            /\ user_interest' = interest
            /\ preference' \in (IF raised
                                THEN Unrendered(prefs, AllNeutral(Len(papers)))
                                ELSE {shown})
            /\ outcome' = IF raised THEN "FetchError"
                           ELSE IF ps = <<>> THEN "no_papers" ELSE "papers_shown"
            /\ sorted_preferences' = <<>>

\* page == "View Preferences"
ViewPreferencesPage(prefs, interest) ==
    /\ WidgetsNotRendered(prefs, interest)
    /\ requests' = <<>>
    /\ IF viewed_categories = <<>>
       THEN /\ outcome' = "not_viewed"
            /\ sorted_preferences' = <<>>
       ELSE IF ZeroDivision(viewed_categories)
       THEN /\ outcome' = "ZeroDivisionError"
            /\ sorted_preferences' = <<>>
       ELSE /\ outcome' = "scores_shown"
            /\ sorted_preferences' =
                  SortedByScore(PreferenceScores(liked_categories,
                                                 disliked_categories,
                                                 viewed_categories))
    /\ UNCHANGED <<papers, start_index, engine_vars>>

\* page == "View Liked Papers"
ViewLikedPapersPage(prefs, interest) ==
    /\ WidgetsNotRendered(prefs, interest)
    /\ requests' = <<>>
    /\ outcome' = IF liked_papers = <<>> THEN "not_liked" ELSE "liked_shown"
    /\ sorted_preferences' = <<>>
    /\ UNCHANGED <<papers, start_index, engine_vars>>

\* page == "Generate Recommendations"
GenerateRecommendationsPage(prefs, interest) ==
    /\ WidgetsNotRendered(prefs, interest)
    /\ IF ZeroDivision(viewed_categories)
       THEN /\ outcome' = "ZeroDivisionError"
            /\ sorted_preferences' = <<>>
            /\ requests' = <<>>
       ELSE LET sorted_categories ==
                    SortedByScore(PreferenceScores(liked_categories,
                                                   disliked_categories,
                                                   viewed_categories))
                preferred_categories == PreferredCategories(sorted_categories)
            IN  /\ sorted_preferences' = sorted_categories
                /\ IF preferred_categories = <<>>
                   THEN /\ outcome' = "no_preferred"
                        /\ requests' = <<>>
                   ELSE \* fetch number n raises; n past the end: none does
                        \E n \in 1..(Len(preferred_categories) + 1) :
                            LET issued == Min(n, Len(preferred_categories))
                            IN  /\ requests' = [i \in 1..issued |->
                                                  RecoRequest(preferred_categories[i])]
                                /\ outcome' = IF n <= Len(preferred_categories)
                                               THEN "FetchError"
                                               ELSE "recommendations_shown"
    /\ UNCHANGED <<papers, start_index, engine_vars>>

RunScript(p, prefs, interest, clicked) ==
    /\ page' = p
    /\ IF p = "Fetch Papers" THEN FetchPapersPage(prefs, interest, clicked)
       ELSE IF p = "View Preferences" THEN ViewPreferencesPage(prefs, interest)
       ELSE IF p = "View Liked Papers" THEN ViewLikedPapersPage(prefs, interest)
       ELSE GenerateRecommendationsPage(prefs, interest)

-----------------------------------------------------------------------------
(* User interactions *)

\* the sidebar selectbox changes
SelectPage ==
    \E p \in Pages \ {page} : RunScript(p, preference, user_interest, FALSE)

\* the text input changes
EnterInterest ==
    /\ page = "Fetch Papers"
    /\ \E t \in Interests \ {user_interest} : RunScript(page, preference, t, FALSE)

\* the Fetch Papers button is pressed
ClickFetch ==
    /\ page = "Fetch Papers"
    /\ RunScript(page, preference, user_interest, TRUE)

\* a radio changes
SelectPreference ==
    /\ page = "Fetch Papers"
    /\ outcome /= "FetchError"
    /\ \E idx \in DOMAIN papers : \E v \in Options \ {preference[idx]} :
          RunScript(page, [preference EXCEPT ![idx] = v], user_interest, FALSE)

\* the script is run again with no widget changed
Rerun == RunScript(page, preference, user_interest, FALSE)

Next == SelectPage \/ EnterInterest \/ ClickFetch \/ SelectPreference \/ Rerun

Spec == Init /\ [][Next]_vars

-----------------------------------------------------------------------------
(* Vocabulary of the properties *)

Viewed(c)   == Get(viewed_categories, c, 0)
Liked(c)    == Get(liked_categories, c, 0)
Disliked(c) == Get(disliked_categories, c, 0)

Carries(paper, c) == \E i \in DOMAIN paper.categories : paper.categories[i] = c

KeyIndex(c) == CHOOSE i \in DOMAIN viewed_categories : viewed_categories[i].k = c

\* c1 is ranked before c2: higher score, or equal score and earlier key
RankedBefore(c1, c2) ==
    \/ (Liked(c1) - Disliked(c1)) * Viewed(c2) > (Liked(c2) - Disliked(c2)) * Viewed(c1)
    \/ /\ (Liked(c1) - Disliked(c1)) * Viewed(c2) = (Liked(c2) - Disliked(c2)) * Viewed(c1)
       /\ KeyIndex(c1) < KeyIndex(c2)

PositiveCategories == {c \in Categories : Viewed(c) > 0 /\ Liked(c) - Disliked(c) > 0}

\* the categories with a positive score, best first
ExpectedPreferred ==
    CHOOSE s \in [1..Cardinality(PositiveCategories) -> PositiveCategories] :
        \A i, j \in DOMAIN s : i < j => RankedBefore(s[i], s[j])

IsPrefix(s, t) == Len(s) <= Len(t) /\ \A i \in DOMAIN s : s[i] = t[i]

RankingPages == {"View Preferences", "Generate Recommendations"}

-----------------------------------------------------------------------------
(* Properties *)

\* C1: for every category, viewed >= liked and viewed >= disliked (a missing
\* key counts as 0), after any sequence of interactions.
C1_ViewedBoundsLikedAndDisliked ==
    \A c \in Categories : Viewed(c) >= Liked(c) /\ Viewed(c) >= Disliked(c)

C1_Witness ==
    \E c \in Categories : Liked(c) >= 2 /\ Disliked(c) >= 1

\* C2: viewed[c] equals the number of reviewed papers that carry category c,
\* however often the page was rendered.
C2_ViewedCountsReviewedPapers ==
    \A c \in Categories :
        Viewed(c) = Cardinality({i \in DOMAIN papers : Carries(papers[i], c)})

\* C3: when the verdict of an already shown paper is changed, the paper's
\* earlier like/dislike contribution is withdrawn and only the new verdict
\* counts for it.
C3_ReReviewOverwrites ==
    [][\A idx \in DOMAIN papers :
          ( /\ page = "Fetch Papers" /\ page' = "Fetch Papers"
            /\ papers' = papers
            /\ outcome' = "papers_shown" /\ requests' = <<>>
            /\ idx \in DOMAIN preference /\ idx \in DOMAIN preference'
            /\ preference'[idx] /= preference[idx]
            /\ \A j \in DOMAIN papers \ {idx} : preference'[j] = preference[j] )
          => \A c \in Categories : Carries(papers[idx], c) =>
                /\ Get(liked_categories', c, 0) =
                       Liked(c) - (IF preference[idx] = "Like" THEN 1 ELSE 0)
                                + (IF preference'[idx] = "Like" THEN 1 ELSE 0)
                /\ Get(disliked_categories', c, 0) =
                       Disliked(c) - (IF preference[idx] = "Dislike" THEN 1 ELSE 0)
                                   + (IF preference'[idx] = "Dislike" THEN 1 ELSE 0)
      ]_vars

\* C4: liked_papers never holds two structurally equal papers.
C4_LikedPapersHasNoDuplicates ==
    \A i, j \in DOMAIN liked_papers : liked_papers[i] = liked_papers[j] => i = j

C4_Witness ==
    /\ Len(liked_papers) = 1
    /\ \E i, j \in DOMAIN papers :
          /\ i /= j /\ papers[i] = papers[j]
          /\ preference[i] = "Like" /\ preference[j] = "Like"
    /\ \E c \in Categories : Liked(c) >= 3

\* C5 as stated: when no fetch fails, recommendation generation issues one
\* fetch per category with score > 0, in rank order, with query
\* "category:" + category, start 0 and max_results 3; with no such category
\* it issues none and reports that there is no recommendation.
C5_QueriesUseCategoryPrefix ==
    (page = "Generate Recommendations" /\ outcome /= "FetchError") =>
        /\ requests = [i \in DOMAIN ExpectedPreferred |->
                          Request("category:" \o ExpectedPreferred[i], 0, 3)]
        /\ ExpectedPreferred = <<>> => outcome = "no_preferred"

\* C5 amended: the fetches go to the categories with score > 0, in rank
\* order, with query "cat:" + category, start 0 and max_results 3; a fetch
\* that fails ends the run, so the fetches issued are a prefix of that
\* sequence and the whole of it when none fails; with no such category none
\* is issued and "no preferred categories" is reported.
C5_QueriesUseCatPrefix ==
    page = "Generate Recommendations" =>
        LET expected == [i \in DOMAIN ExpectedPreferred |->
                            Request("cat:" \o ExpectedPreferred[i], 0, 3)]
        IN  /\ IsPrefix(requests, expected)
            /\ outcome /= "FetchError" => requests = expected
            /\ outcome = "FetchError" => requests /= <<>>
            /\ expected = <<>> <=> outcome = "no_preferred"

C5_Witness ==
    /\ page = "Generate Recommendations"
    /\ outcome = "recommendations_shown"
    /\ Len(requests) = 2
    /\ requests[1].search_query = "cat:cs.LG"

C5_WitnessNone ==
    /\ page = "Generate Recommendations"
    /\ outcome = "no_preferred"
    /\ viewed_categories /= <<>>

\* C6: no category with viewed = 0 is ranked, and computing the ranking never
\* divides by zero.
C6_NoDivisionByZero ==
    /\ outcome /= "ZeroDivisionError"
    /\ \A i \in DOMAIN viewed_categories : viewed_categories[i].v > 0
    /\ \A i \in DOMAIN sorted_preferences : Viewed(sorted_preferences[i].category) > 0

C6_Witness ==
    /\ page = "View Preferences"
    /\ outcome = "scores_shown"
    /\ Len(sorted_preferences) = 1
    /\ \E c \in Categories : Viewed(c) = 0

\* C7: a script run in which fetch_papers fails leaves viewed, liked and
\* disliked counters and liked_papers as they were.
C7_FailedFetchKeepsEngineState ==
    [][outcome' = "FetchError" => UNCHANGED engine_vars]_vars

C7_Witness ==
    /\ outcome = "FetchError"
    /\ page = "Fetch Papers"
    /\ \E i \in DOMAIN preference : preference[i] = "Like"

\* C8: the ranking is in non-increasing order of score with equal scores in
\* the key order of viewed_categories, lists every viewed category once, and
\* is the same on every rendering while the counters stay as they are.
C8_RankingSorted ==
    /\ \A i, j \in DOMAIN sorted_preferences : i < j =>
          RankedBefore(sorted_preferences[i].category, sorted_preferences[j].category)
    /\ (page \in RankingPages /\ outcome /= "ZeroDivisionError") =>
          /\ Len(sorted_preferences) = Len(viewed_categories)
          /\ \A i \in DOMAIN viewed_categories :
                \E j \in DOMAIN sorted_preferences :
                    /\ sorted_preferences[j].category = viewed_categories[i].k
                    /\ sorted_preferences[j].num =
                          Liked(viewed_categories[i].k) - Disliked(viewed_categories[i].k)
                    /\ sorted_preferences[j].den = viewed_categories[i].v

C8_RankingRepeatable ==
    [][(page \in RankingPages /\ page' \in RankingPages /\ UNCHANGED engine_vars)
          => sorted_preferences' = sorted_preferences]_vars

C8_RankingSortedAndRepeatable == []C8_RankingSorted /\ C8_RankingRepeatable

C8_Witness ==
    /\ page = "View Preferences"
    /\ Len(sorted_preferences) = 2
    /\ sorted_preferences[1].category = "cs.LG"
    /\ ScoreLess(sorted_preferences[2], sorted_preferences[1])

C8_WitnessTie ==
    /\ page = "Generate Recommendations"
    /\ Len(sorted_preferences) = 2
    /\ ScoreEq(sorted_preferences[1], sorted_preferences[2])
    /\ sorted_preferences[1].category = "cs.LG"

\* C9: for every category with viewed > 0,
\* -viewed <= liked - disliked <= viewed, so the score lies in [-1, 1].
C9_ScoreInRange ==
    \A c \in Categories : Viewed(c) > 0 =>
        /\ - Viewed(c) <= Liked(c) - Disliked(c)
        /\ Liked(c) - Disliked(c) <= Viewed(c)

C9_Witness ==
    /\ page = "View Preferences"
    /\ outcome = "scores_shown"
    /\ \E c \in Categories : Disliked(c) >= 3 /\ Liked(c) = 0
    /\ \E c \in Categories : Liked(c) >= 1

\* C10: the button asks for 5 results at offset start_index; papers only
\* grows at its end, start_index moves by exactly 5 and only together with
\* papers, an empty or failed fetch changes neither; start_index is a
\* multiple of 5 and len(papers) <= start_index.
C10_State ==
    /\ start_index % 5 = 0
    /\ Len(papers) <= start_index

C10_Step ==
    [][/\ IsPrefix(papers, papers')
       /\ start_index' \in {start_index, start_index + 5}
       /\ papers' /= papers <=> start_index' = start_index + 5
       /\ outcome' = "FetchError" => papers' = papers /\ start_index' = start_index
       /\ (page' = "Fetch Papers" /\ requests' /= <<>>) =>
             /\ Len(requests') = 1
             /\ requests'[1].start = start_index
             /\ requests'[1].max_results = 5
      ]_vars

====
